---- MODULE Spec2Model ----
(***************************************************************************)
(* SniperBot (src/bot.py): a Telegram bot that stores, per user, one       *)
(* parsed screenshot observation per timeframe caption and derives a       *)
(* trade recommendation from them on /analyze.                             *)
(*                                                                         *)
(* Representation.                                                         *)
(*  - Python str values (OCR text, caption, number tokens) are sequences   *)
(*    of one-character strings.                                            *)
(*  - Python dict values are functions; `k in d` is k \in DOMAIN d.        *)
(*  - Python float values are fixed-point integers counting units of       *)
(*    10^-5 (Unit == 1.0).  A product or quotient is truncated to this     *)
(*    resolution; round(x, n) is round-half-to-even on the fixed-point     *)
(*    value.  This is coarser than IEEE double, exact for every token the  *)
(*    regular expression can produce (at most 4 fractional digits).        *)
(*    Where the rounding of IEEE doubles decides an outcome (whether a     *)
(*    number exceeds np.mean, whether np.std is 0) the mean is computed    *)
(*    in binary64, bit for bit.                                            *)
(***************************************************************************)
EXTENDS Integers, Sequences, FiniteSets, TLC

\* ------------------------------------------------------------------------
\* Bounds of the model
\* ------------------------------------------------------------------------
\* number of distinct Telegram users sending updates
NumUsers == 2
\* number of OCR texts (TextOf(1..NumTexts)) the controller may receive
NumTexts == 3
\* number of OCR texts (TextOf(1..NumSamples)) the engine sessions are built from
NumSamples == 6
\* number of photo updates dispatched in one behaviour
MaxUploads == 2
\* largest deviation mantissa kept by the fixed-point standard deviation
MantissaMax == 500
\* number of texts with longer number lists (EdgeTable) the engine sessions
\* of 5M and 15M are built from
NumEdge == 2
\* length of the longest text of digits and points the extractor is applied to
MaxTextLen == 11

\* ------------------------------------------------------------------------
\* Characters and strings
\* ------------------------------------------------------------------------
DigitChars == <<"0", "1", "2", "3", "4", "5", "6", "7", "8", "9">>

LowerChars == <<"a", "b", "c", "d", "e", "f", "g", "h", "i", "j", "k", "l", "m",
                "n", "o", "p", "q", "r", "s", "t", "u", "v", "w", "x", "y", "z">>

UpperChars == <<"A", "B", "C", "D", "E", "F", "G", "H", "I", "J", "K", "L", "M",
                "N", "O", "P", "Q", "R", "S", "T", "U", "V", "W", "X", "Y", "Z">>

WhitespaceChars == {" ", "\t", "\n", "\r"}

IsDigit(c) == \E i \in 1..Len(DigitChars) : DigitChars[i] = c

DigitValue(c) == (CHOOSE i \in 1..Len(DigitChars) : DigitChars[i] = c) - 1

\* str.upper() on one character
UpperChar(c) ==
    IF \E i \in 1..Len(LowerChars) : LowerChars[i] = c
    THEN UpperChars[CHOOSE i \in 1..Len(LowerChars) : LowerChars[i] = c]
    ELSE c

\* str.upper()
Upper(s) == [i \in 1..Len(s) |-> UpperChar(s[i])]

RECURSIVE LStrip(_)
LStrip(s) ==
    IF s # <<>> /\ Head(s) \in WhitespaceChars THEN LStrip(Tail(s)) ELSE s

RECURSIVE RStrip(_)
RStrip(s) ==
    IF s # <<>> /\ s[Len(s)] \in WhitespaceChars
    THEN RStrip(SubSeq(s, 1, Len(s) - 1))
    ELSE s

\* str.strip()
Strip(s) == RStrip(LStrip(s))

\* ------------------------------------------------------------------------
\* extract_prices_from_text: re.findall(r"\d{3,5}\.\d{1,4}", text)
\* ------------------------------------------------------------------------
IntMin == 3
IntMax == 5
FracMin == 1
FracMax == 4

\* TRUE iff text[i .. i+k-1] exists and is all digits
DigitsAt(text, i, k) ==
    /\ i + k - 1 <= Len(text)
    /\ \A j \in i..(i + k - 1) : IsDigit(text[j])

\* the integer-part lengths with which the pattern can match at i
IntLens(text, i) ==
    {k \in IntMin..IntMax :
        /\ DigitsAt(text, i, k)
        /\ i + k <= Len(text)
        /\ text[i + k] = "."
        /\ DigitsAt(text, i + k + 1, FracMin)}

Maximum(S) == CHOOSE x \in S : \A y \in S : y <= x

Minimum(S) == CHOOSE x \in S : \A y \in S : x <= y

\* index one past the end of the (greedy) match starting at i, 0 when the
\* pattern does not match at i
MatchEnd(text, i) ==
    IF IntLens(text, i) = {} THEN 0
    ELSE LET k == Maximum(IntLens(text, i))
             f == Maximum({m \in FracMin..FracMax : DigitsAt(text, i + k + 1, m)})
         IN  i + k + 1 + f

RECURSIVE FindAllOverlapping(_, _)
FindAllOverlapping(text, i) ==
    IF i > Len(text) THEN <<>>
    ELSE IF MatchEnd(text, i) = 0 THEN FindAllOverlapping(text, i + 1)
    ELSE <<SubSeq(text, i, MatchEnd(text, i) - 1)>> \o FindAllOverlapping(text, i + 1)

\* the non-overlapping matches scanning from position i, leftmost first
RECURSIVE FindAll(_, _)
FindAll(text, i) ==
    IF i > Len(text) THEN <<>>
    ELSE IF MatchEnd(text, i) = 0 THEN FindAll(text, i + 1)
    ELSE <<SubSeq(text, i, MatchEnd(text, i) - 1)>> \o FindAll(text, MatchEnd(text, i))

extract_prices_from_text(text) == [numbers |-> FindAll(text, 1), raw |-> text]

\* ------------------------------------------------------------------------
\* Fixed-point arithmetic standing for Python float
\* ------------------------------------------------------------------------
\* fixed-point units in 1.0
Unit == 10 * 10 * 10 * 10 * 10

RECURSIVE Pow10(_)
Pow10(n) == IF n = 0 THEN 1 ELSE 10 * Pow10(n - 1)

RECURSIVE DigitsValue(_)
DigitsValue(ds) ==
    IF ds = <<>> THEN 0
    ELSE 10 * DigitsValue(SubSeq(ds, 1, Len(ds) - 1)) + DigitValue(ds[Len(ds)])

DotIndex(tok) == CHOOSE i \in 1..Len(tok) : tok[i] = "."

\* the strings of the form digits "." digits, which float() accepts
IsDecimalLiteral(tok) ==
    /\ \E i \in 1..Len(tok) : tok[i] = "."
    /\ LET d == DotIndex(tok)
       IN  /\ d > 1
           /\ d < Len(tok)
           /\ \A j \in 1..Len(tok) : j # d => IsDigit(tok[j])

\* float(tok) for a decimal literal with at most 5 fractional digits
ToFloat(tok) ==
    LET d == DotIndex(tok)
        fr == SubSeq(tok, d + 1, Len(tok))
    IN  DigitsValue(SubSeq(tok, 1, d - 1)) * Unit
          + DigitsValue(fr) * (Unit \div Pow10(Len(fr)))

\* round(x, n) with x in fixed point: to a multiple of step, ties to even
RoundTo(x, step) ==
    LET q == x \div step
        r == x % step
    IN  IF 2 * r < step THEN q * step
        ELSE IF 2 * r > step THEN (q + 1) * step
        ELSE IF q % 2 = 0 THEN q * step ELSE (q + 1) * step

\* round(num / den) to an integer, ties to even (num >= 0, den > 0)
RoundDiv(num, den) ==
    LET q == num \div den
        r == num % den
    IN  IF r < den - r THEN q
        ELSE IF r > den - r THEN q + 1
        ELSE IF q % 2 = 0 THEN q ELSE q + 1

RECURSIVE ISqrtIn(_, _, _)
ISqrtIn(k, lo, hi) ==
    IF lo = hi THEN lo
    ELSE LET mid == (lo + hi + 1) \div 2
         IN  IF mid * mid <= k THEN ISqrtIn(k, mid, hi) ELSE ISqrtIn(k, lo, mid - 1)

\* floor of the square root of k, 0 <= k < 2^31
ISqrt(k) == ISqrtIn(k, 0, 46340)

RECURSIVE SumSeq(_)
SumSeq(s) == IF s = <<>> THEN 0 ELSE Head(s) + SumSeq(Tail(s))

SeqRange(s) == {s[i] : i \in 1..Len(s)}

RECURSIVE ScaleFor(_, _)
ScaleFor(r, s) == IF r \div s <= MantissaMax THEN s ELSE ScaleFor(r, s * 10)

\* the decimal places the square root of d is taken to: 2 when d * 100^2
\* fits a 32-bit integer, else 1
RootScale(d) == IF d <= (2147483647 \div (100 * 100)) THEN 100 ELSE 10

\* np.std(xs): population standard deviation sqrt(mean((x - mean(x))^2)),
\* computed as sqrt(n*sum(y^2) - sum(y)^2) / n over the deviations y from the
\* minimum.  The deviations are held at the scale s that keeps their mantissa
\* within MantissaMax, so the value is exact up to the truncation of the
\* square root when the deviations are multiples of s.
PStd(xs) ==
    LET n  == Len(xs)
        lo == Minimum(SeqRange(xs))
        s  == ScaleFor(Maximum(SeqRange(xs)) - lo, 1)
        ys == [i \in 1..n |-> (xs[i] - lo) \div s]
        sq == [i \in 1..n |-> ys[i] * ys[i]]
        d  == n * SumSeq(sq) - SumSeq(ys) * SumSeq(ys)
        k  == RootScale(d)
        r  == ISqrt(d * k * k)
        m  == k * n
    IN  (r \div m) * s + ((r % m) * s) \div m

\* ------------------------------------------------------------------------
\* Binary64 arithmetic.  np.mean rounds: the sum is rounded to 53 significant
\* bits after each addition and so is the quotient, and the outcome decides
\* whether a number exceeds the mean and whether a deviation is zero.  A
\* double between 2^6 and 2^21 is a multiple of 2^-46 and is held exactly, as
\* <<i, f1, f2>> standing for i + f1/2^23 + f2/2^46.
\* ------------------------------------------------------------------------
Limb == 2 * 2 * 2 * 2 * 2 * 2 * 2 * 2 * 2 * 2 * 2 * 2 * 2 * 2 * 2 * 2 * 2 * 2 * 2 * 2 * 2 * 2 * 2

RECURSIVE Pow2(_)
Pow2(n) == IF n = 0 THEN 1 ELSE 2 * Pow2(n - 1)

RECURSIVE BitLen(_)
BitLen(n) == IF n = 0 THEN 0 ELSE 1 + BitLen(n \div 2)

\* the first k binary digits of r/den (0 <= r < den <= 2^18), as the integer
\* q, and what remains: r/den = (q + rem/den) / 2^k; 12 digits at a time
RECURSIVE BinFrac(_, _, _)
BinFrac(r, den, k) ==
    IF k = 0 THEN [q |-> 0, r |-> r]
    ELSE LET c == IF k < 12 THEN k ELSE 12
             h == BinFrac(r, den, k - c)
             t == h.r * Pow2(c)
         IN  [q |-> h.q * Pow2(c) + t \div den, r |-> t % den]

\* the double nearest to i + f1/2^23 + (f2 + rem/den)/2^46, ties to even,
\* when the bits of f2 below p = 2^d are beyond the 53 significant ones
RoundAt(i, f1, f2, rem, den, p) ==
    LET low == f2 % p
        up  == IF p = 1 THEN 2 * rem > den \/ (2 * rem = den /\ f2 % 2 = 1)
               ELSE IF 2 * low # p THEN 2 * low > p
               ELSE rem > 0 \/ ((f2 - low) \div p) % 2 = 1
        g2  == (f2 - low) + (IF up THEN p ELSE 0)
        g1  == f1 + g2 \div Limb
    IN  <<i + g1 \div Limb, g1 % Limb, g2 % Limb>>

\* 2^6 <= i < 2^21: the integer part takes BitLen(i) of the 53 bits, and the
\* BitLen(i) - 7 lowest of the 46 fraction bits are rounded away
RoundDbl(i, f1, f2, rem, den) == RoundAt(i, f1, f2, rem, den, Pow2(BitLen(i) - 7))

DblOfLow(i, f1, h) == RoundDbl(i, f1, h.q, h.r, Unit)

DblOfHigh(i, h) == DblOfLow(i, h.q, BinFrac(h.r, Unit, 23))

\* the double float() returns for the decimal x/Unit
DblOf(x) == DblOfHigh(x \div Unit, BinFrac(x % Unit, Unit, 23))

\* a + b in binary64
DblAdd(a, b) ==
    LET s3 == a[3] + b[3]
        s2 == a[2] + b[2] + s3 \div Limb
    IN  RoundDbl(a[1] + b[1] + s2 \div Limb, s2 % Limb, s3 % Limb, 0, 1)

\* a / n in binary64, n a small positive integer
DblDiv(a, n) ==
    LET t2 == (a[1] % n) * Limb + a[2]
        t3 == (t2 % n) * Limb + a[3]
    IN  RoundDbl(a[1] \div n, t2 \div n, t3 \div n, t3 % n, n)

DblLess(a, b) ==
    \/ a[1] < b[1]
    \/ a[1] = b[1] /\ a[2] < b[2]
    \/ a[1] = b[1] /\ a[2] = b[2] /\ a[3] < b[3]

\* acc + xs[i] + xs[i + step] + ... up to xs[last], added in that order
RECURSIVE SumFrom(_, _, _, _, _)
SumFrom(acc, xs, i, step, last) ==
    IF i > last THEN acc ELSE SumFrom(DblAdd(acc, xs[i]), xs, i + step, step, last)

\* ((r1 + r2) + (r3 + r4)) + ((r5 + r6) + (r7 + r8))
RECURSIVE PairSum(_)
PairSum(r) ==
    IF Len(r) = 1 THEN r[1]
    ELSE PairSum([j \in 1..(Len(r) \div 2) |-> DblAdd(r[2 * j - 1], r[2 * j])])

\* the sum numpy's add.reduce makes of a non-empty array: in order when it
\* has fewer than 8 elements, else in 8 interleaved partial sums over the
\* first m elements (m the last multiple of 8) that are added pairwise,
\* followed by the elements past m in order
DblSum(xs) ==
    LET n == Len(xs)
        m == n - (n % 8)
    IN  SumFrom(IF n < 8 THEN xs[1]
                ELSE PairSum([j \in 1..8 |-> SumFrom(xs[j], xs, j + 8, 8, m)]),
                xs, IF n < 8 THEN 2 ELSE m + 1, 1, n)

\* np.mean of the doubles xs
DblMean(xs) == DblDiv(DblSum(xs), Len(xs))

\* np.mean of the decimals xs, as a double
NpMean(xs) == DblMean([i \in 1..Len(xs) |-> DblOf(xs[i])])

\* x > np.mean(xs), in binary64.  A decimal x that is not the exact mean is
\* at least 1/(Len(xs) * Unit) away from it, far more than the rounding of
\* the sum and the quotient can move the mean, so the exact comparison
\* decides; when x is the exact mean the doubles decide.
ExceedsMean(x, xs) ==
    IF x * Len(xs) # SumSeq(xs) THEN x * Len(xs) > SumSeq(xs)
    ELSE DblLess(NpMean(xs), DblOf(x))

\* np.std(xs).  It is 0 exactly when every deviation x - np.mean(xs) is 0,
\* and then the numbers are equal; a positive value below the resolution
\* 1/Unit is held as 1 (the size computed from it is then smaller than the
\* one the program reports).
NpStd(xs) ==
    IF \E i \in 1..Len(xs) : xs[i] # xs[1] THEN PStd(xs)
    ELSE IF DblOf(xs[1]) = NpMean(xs) THEN 0
    ELSE 1

\* ------------------------------------------------------------------------
\* compute_sl_tp_size
\* ------------------------------------------------------------------------
\* ATR_SL_K = 1.5, held in halves
ATR_SL_K == 3
\* tp_distance = 4.0 * sl_distance
TP_K == 4
\* balance=10000.0
Balance == 10000
\* risk_usd = balance * 0.01, that is balance / RiskDiv
RiskDiv == 100
\* the floor 0.01 of max(0.01, ...), in hundredths
MinLots == 1
\* "RR": 4.0
RR == 4

\* round(x, 3) of a value x held in half units, as a fixed-point value
Round3Half(x) == RoundTo(x, 2 * (Unit \div 1000)) \div 2

\* The result dict {"SL", "TP", "lots", "RR"}.  sl_distance, tp_distance, sl and
\* tp are held in half units, so that 1.5 * atr is exact; SL and TP are fixed
\* point, lots is in hundredths.  risk_usd / (sl_distance * 100) rounded to 2
\* places is round(100 * risk_usd / (sl_distance * 100)) hundredths, and the
\* two factors 100 cancel.  A zero sl_distance makes the float division raise
\* ZeroDivisionError, returned here as [raised |-> message].
SizeNoFloor(entry_price, atr, side) ==
    LET sl_distance == ATR_SL_K * atr
        tp_distance == TP_K * sl_distance
        sl == IF side = "LONG" THEN 2 * entry_price - sl_distance
                               ELSE 2 * entry_price + sl_distance
        tp == IF side = "LONG" THEN 2 * entry_price + tp_distance
                               ELSE 2 * entry_price - tp_distance
        risk_usd == Balance \div RiskDiv
    IN  IF sl_distance = 0 THEN [raised |-> "float division by zero"]
        ELSE [SL |-> Round3Half(sl), TP |-> Round3Half(tp),
              lots |-> RoundDiv(2 * risk_usd * Unit, sl_distance),
              RR |-> RR]

compute_sl_tp_size(entry_price, atr, side) ==
    LET sl_distance == ATR_SL_K * atr
        tp_distance == TP_K * sl_distance
        sl == IF side = "LONG" THEN 2 * entry_price - sl_distance
                               ELSE 2 * entry_price + sl_distance
        tp == IF side = "LONG" THEN 2 * entry_price + tp_distance
                               ELSE 2 * entry_price - tp_distance
        risk_usd == Balance \div RiskDiv
    IN  IF sl_distance = 0 THEN [raised |-> "float division by zero"]
        ELSE [SL |-> Round3Half(sl), TP |-> Round3Half(tp),
              lots |-> Maximum({MinLots, RoundDiv(2 * risk_usd * Unit, sl_distance)}),
              RR |-> RR]

\* ------------------------------------------------------------------------
\* analyze_screenshots
\* ------------------------------------------------------------------------
TF5M == <<"5", "M">>
TF15M == <<"1", "5", "M">>
TF30M == <<"3", "0", "M">>
TF1H == <<"1", "H">>
TF4H == <<"4", "H">>

\* the scan order of the for loop, ("5M","15M","30M","1H","4H")
TFOrder == <<TF5M, TF15M, TF30M, TF1H, TF4H>>

Timeframes == SeqRange(TFOrder)

\* parsed.get(tf, {}).get("numbers"), with None read as the empty list
NumbersOf(parsed, tf) == IF tf \in DOMAIN parsed THEN parsed[tf].numbers ELSE <<>>

\* the positions of TFOrder at which `if v:` is true
PricedAt(parsed) == {i \in 1..Len(TFOrder) : NumbersOf(parsed, TFOrder[i]) # <<>>}

EntryTokenFirst(parsed) ==
    LET v == NumbersOf(parsed, TFOrder[Minimum(PricedAt(parsed))])
    IN  v[1]

\* the token the loop breaks on: v[-1] of the first timeframe with numbers
EntryToken(parsed) ==
    LET v == NumbersOf(parsed, TFOrder[Minimum(PricedAt(parsed))])
    IN  v[Len(v)]

\* float(n) of every n of a list that float() accepts (the others are passed)
RECURSIVE FloatsOf(_)
FloatsOf(nums) ==
    IF nums = <<>> THEN <<>>
    ELSE IF IsDecimalLiteral(Head(nums))
         THEN <<ToFloat(Head(nums))>> \o FloatsOf(Tail(nums))
         ELSE FloatsOf(Tail(nums))

\* all_nums: the floats of the numbers of every value of the dict
RECURSIVE AllNumsOver(_, _)
AllNumsOver(parsed, keys) ==
    IF keys = {} THEN <<>>
    ELSE LET k == CHOOSE k \in keys : TRUE
         IN  FloatsOf(parsed[k].numbers) \o AllNumsOver(parsed, keys \ {k})

AllNums(parsed) == AllNumsOver(parsed, DOMAIN parsed)

\* atr = float(np.std(all_nums)) if len(all_nums) >= 2 else 1.0
Atr(parsed) ==
    IF Len(AllNums(parsed)) >= 2 THEN NpStd(AllNums(parsed)) ELSE Unit

\* m15[-5:]
LastFive(m15) == SubSeq(m15, Maximum({1, Len(m15) - 4}), Len(m15))

\* the 15M branch; every m15 token is a decimal literal when it is reached
Side(parsed) ==
    LET m15 == NumbersOf(parsed, TF15M)
    IN  IF m15 # <<>>
        THEN IF ExceedsMean(ToFloat(m15[Len(m15)]),
                            [i \in 1..Len(LastFive(m15)) |-> ToFloat(LastFive(m15)[i])])
             THEN "LONG" ELSE "SHORT"
        ELSE "LONG"

AnalyzeLeaking(parsed) ==
    IF PricedAt(parsed) = {} THEN [error |-> "No price found."]
    ELSE LET price == ToFloat(EntryToken(parsed))
             side  == Side(parsed)
             trade == compute_sl_tp_size(price, Atr(parsed), side)
         IN  IF "raised" \in DOMAIN trade THEN [side |-> side, entry |-> price]
             ELSE [side |-> side, entry |-> price, SL |-> trade.SL, TP |-> trade.TP,
                   lots |-> trade.lots, RR |-> trade.RR]

\* the dict analyze_screenshots returns: {"error": ...} or the recommendation
\* {"side", "entry", "SL", "TP", "lots", "RR"}
analyze_screenshots(parsed) ==
    IF PricedAt(parsed) = {} THEN [error |-> "No price found."]
    ELSE IF ~IsDecimalLiteral(EntryToken(parsed))
              \/ \E i \in 1..Len(NumbersOf(parsed, TF15M)) :
                     ~IsDecimalLiteral(NumbersOf(parsed, TF15M)[i])
         THEN [error |-> "could not convert string to float"]
    ELSE LET price == ToFloat(EntryToken(parsed))
             side  == Side(parsed)
             trade == compute_sl_tp_size(price, Atr(parsed), side)
         IN  IF "raised" \in DOMAIN trade THEN [error |-> trade.raised]
             ELSE [side |-> side, entry |-> price, SL |-> trade.SL, TP |-> trade.TP,
                   lots |-> trade.lots, RR |-> trade.RR]

IsError(result) == "error" \in DOMAIN result

\* ------------------------------------------------------------------------
\* Inputs: users, OCR texts, captions
\* ------------------------------------------------------------------------
Users == 1..NumUsers

\* texts the OCR collaborator may return (ocr_image_bytes)
TextTable ==
    << <<"n", "/", "a">>,
       <<"2", "0", "0", "0", ".", "0">>,
       <<"2", "0", "0", "0", ".", "0", " ", "2", "0", "0", "0", ".", "0">>,
       <<"2", "0", "0", "0", ".", "0", "0", "0", "5", " ",
         "2", "0", "0", "0", ".", "0", "0", "0", "6">>,
       <<"1", "0", "0", ".", "0", " ", "4", "0", "0", ".", "0">>,
       <<"2", "0", "0", "0", ".", "0", "0", "4", "\n", "2", "0", "0", "0", ".", "0">>,
       <<>>,
       <<"H", "1", "9", "9", "9", ".", "5", "L">> >>

Texts == {TextTable[i] : i \in 1..NumTexts}

\* texts with longer lists: three equal numbers that are not binary
\* fractions, six numbers, three equal numbers that are binary fractions
EdgeTable ==
    << <<"1", "0", "0", ".", "8", "7", "4", " ", "1", "0", "0", ".", "8", "7", "4", " ",
         "1", "0", "0", ".", "8", "7", "4">>,
       <<"9", "0", "0", ".", "0", " ", "1", "0", "0", ".", "0", " ", "1", "0", "0", ".", "0", " ",
         "1", "0", "0", ".", "0", " ", "1", "0", "0", ".", "0", " ", "2", "0", "0", ".", "0">>,
       <<"1", "0", "0", ".", "5", " ", "1", "0", "0", ".", "5", " ", "1", "0", "0", ".", "5">> >>

EdgeTexts == {EdgeTable[i] : i \in 1..NumEdge}

SampleTexts == {TextTable[i] : i \in 1..NumSamples}

\* msg.caption: absent (None) or a string.  The captions the controller is
\* driven with name three of the five labels (with the case and whitespace
\* variants strip/upper remove) and two unrecognized ones; all five labels
\* occur in the sessions of the engine specification.
NoCaption == [has |-> FALSE, text |-> <<>>]

Captions ==
    {NoCaption} \cup
    {[has |-> TRUE, text |-> c] :
        c \in {<<"5", "M">>, <<" ", "1", "5", "m">>, <<"4", "h", "\n">>,
               <<"2", "H">>, <<"5", " ", "M">>}}

\* (msg.caption or "").strip().upper()
TfLabel(caption) == Upper(Strip(IF caption.has THEN caption.text ELSE <<>>))

RecognizedAny(tf_label) == TRUE

RecognizedAnyHour(tf_label) ==
    tf_label \in Timeframes \/ (Len(tf_label) = 2 /\ tf_label[2] = "H")

\* tf_label in ("5M","15M","30M","1H","4H")
Recognized(tf_label) == tf_label \in Timeframes

\* ------------------------------------------------------------------------
\* The store: one file uploads/parsed_<uid>.json per user
\* ------------------------------------------------------------------------
EmptyDict == <<>>

NoFile == [exists |-> FALSE, data |-> EmptyDict]

ExistsAlways(fs, uid) == TRUE

ExistsWithNumbers(fs, uid) ==
    /\ fs[uid].exists
    /\ \E k \in DOMAIN fs[uid].data : fs[uid].data[k].numbers # <<>>

\* store_path.exists()
Exists(fs, uid) == fs[uid].exists

LoadOneLabel(fs, uid) ==
    IF fs[uid].exists /\ DOMAIN fs[uid].data # {}
    THEN LET k == CHOOSE k \in DOMAIN fs[uid].data : TRUE
         IN  [j \in {k} |-> fs[uid].data[j]]
    ELSE <<>>

\* json.loads(store_path.read_text()) if the file exists, else {}
Load(fs, uid) == IF Exists(fs, uid) THEN fs[uid].data ELSE EmptyDict

SetItemMerging(data, tf_label, obs) ==
    [k \in (DOMAIN data) \cup {tf_label} |->
        IF k # tf_label THEN data[k]
        ELSE IF k \in DOMAIN data
             THEN [numbers |-> data[k].numbers \o obs.numbers, raw |-> obs.raw]
             ELSE obs]

SetItemAlone(data, tf_label, obs) == [k \in {tf_label} |-> obs]

SetItemNothing(data, tf_label, obs) == data

\* data[tf_label] = parsed
SetItem(data, tf_label, obs) ==
    [k \in (DOMAIN data) \cup {tf_label} |-> IF k = tf_label THEN obs ELSE data[k]]

\* store_path.write_text(json.dumps(data))
WriteFile(fs, uid, data) == [fs EXCEPT ![uid] = [exists |-> TRUE, data |-> data]]

UnlinkNothing(fs, uid) == fs

UnlinkAll(fs, uid) == [u \in DOMAIN fs |-> [exists |-> FALSE, data |-> <<>>]]

\* store_path.unlink(missing_ok=True)
Unlink(fs, uid) == [fs EXCEPT ![uid] = NoFile]

\* ------------------------------------------------------------------------
\* State
\* ------------------------------------------------------------------------
VARIABLES
    files,      \* uid -> the user's parsed_<uid>.json
    pc,         \* position of the handler invocation being run, "idle" if none
    upd,        \* the update being handled
    photo,      \* locals of handle_photo: caption, text, tf_label, parsed
    parsed,     \* local parsed of analyze_cmd: the session read from the file
    result,     \* local result of analyze_cmd
    sending,    \* the reply_text call being awaited
    uploads,    \* photo updates dispatched so far
    hist        \* history per user: the outcome of the user's last operations

vars == <<files, pc, upd, photo, parsed, result, sending, uploads, hist>>

NoUpdate == [kind |-> "none", uid |-> 0]

\* photo.prior records what the user's file held at tf_label when it was
\* loaded: "absent", "same" (the observation now parsed) or "other"
NoPhoto == [caption |-> NoCaption, text |-> <<>>, tf_label |-> <<>>,
            parsed |-> [numbers |-> <<>>, raw |-> <<>>], prior |-> "absent"]

Prior(fs, uid, tf_label, obs) ==
    IF tf_label \notin DOMAIN Load(fs, uid) THEN "absent"
    ELSE IF Load(fs, uid)[tf_label] = obs THEN "same" ELSE "other"

NoResult == [pending |-> TRUE]

NoMessage == [to |-> 0, kind |-> "none"]

\* hist[u].phase: "none" (nothing to remember), "failed" (the last analysis failed; snap is the session it read),
\* "retry" (one accepted upload with numbers since that failure; snap is the
\* failed session with that observation put at its label), "cleared" (the
\* last analysis succeeded and no upload was accepted since)
HistOf(phase, snap) == [phase |-> phase, snap |-> snap]

Init ==
    /\ files = [u \in Users |-> NoFile]
    /\ pc = "idle"
    /\ upd = NoUpdate
    /\ photo = NoPhoto
    /\ parsed = EmptyDict
    /\ result = NoResult
    /\ sending = NoMessage
    /\ uploads = 0
    /\ hist = [u \in Users |-> HistOf("none", EmptyDict)]

\* ------------------------------------------------------------------------
\* Dispatch.  app.run_polling() on an Application built without
\* concurrent_updates handles one update at a time: the next handler starts
\* when the running one has returned.
\* ------------------------------------------------------------------------
CanDispatchAlways == TRUE

CanDispatch == pc = "idle"

\* ------------------------------------------------------------------------
\* handle_photo
\* ------------------------------------------------------------------------
\* a photo update arrives (filters.PHOTO: msg.photo is not empty); the handler
\* runs up to `await photo.get_file()`
PhotoStart(u) ==
    /\ CanDispatch
    /\ uploads < MaxUploads
    /\ uploads' = uploads + 1
    /\ upd' = [kind |-> "photo", uid |-> u]
    /\ pc' = "photo_get_file"
    /\ UNCHANGED <<files, photo, parsed, result, sending, hist>>

\* get_file returned; the handler runs up to `await f.download_to_drive(...)`
PhotoGetFile ==
    /\ pc = "photo_get_file"
    /\ pc' = "photo_download"
    /\ UNCHANGED <<files, upd, photo, parsed, result, sending, uploads, hist>>

\* the download returned: OCR, extraction, caption check; the caption is not
\* recognized and the handler awaits the "resend" reply
PhotoReject(caption, text) ==
    /\ pc = "photo_download"
    /\ ~Recognized(TfLabel(caption))
    /\ photo' = [caption |-> caption, text |-> text, tf_label |-> TfLabel(caption),
                 parsed |-> extract_prices_from_text(text),
                 prior |-> Prior(files, upd.uid, TfLabel(caption),
                                 extract_prices_from_text(text))]
    /\ sending' = [to |-> upd.uid, kind |-> "resend"]
    /\ pc' = "photo_reply"
    /\ UNCHANGED <<files, upd, parsed, result, uploads, hist>>

\* the download returned: OCR, extraction, caption check; the caption is
\* recognized, the observation is written to the user's file and the handler
\* awaits the "parsed" reply
PhotoStore(caption, text) ==
    /\ pc = "photo_download"
    /\ Recognized(TfLabel(caption))
    /\ LET obs == extract_prices_from_text(text)
           tf_label == TfLabel(caption)
           h == hist[upd.uid]
       IN  /\ photo' = [caption |-> caption, text |-> text, tf_label |-> tf_label,
                        parsed |-> obs,
                        prior |-> Prior(files, upd.uid, tf_label, obs)]
           /\ files' = WriteFile(files, upd.uid, SetItem(Load(files, upd.uid), tf_label, obs))
           /\ hist' = [hist EXCEPT ![upd.uid] =
                         IF h.phase = "failed" /\ obs.numbers # <<>>
                         THEN HistOf("retry",
                                     [k \in (DOMAIN h.snap) \cup {tf_label} |->
                                         IF k = tf_label THEN obs ELSE h.snap[k]])
                         ELSE HistOf("none", EmptyDict)]
    /\ sending' = [to |-> upd.uid, kind |-> "parsed"]
    /\ pc' = "photo_reply"
    /\ UNCHANGED <<upd, parsed, result, uploads>>

\* the reply was sent; handle_photo returns
PhotoReplied ==
    /\ pc = "photo_reply"
    /\ pc' = "idle"
    /\ upd' = NoUpdate
    /\ photo' = NoPhoto
    /\ sending' = NoMessage
    /\ UNCHANGED <<files, parsed, result, uploads, hist>>

\* ------------------------------------------------------------------------
\* analyze_cmd
\* ------------------------------------------------------------------------
\* /analyze arrives and the user has no file: the handler awaits the
\* "No parsed screenshots found" reply
AnalyzeNoData(u) ==
    /\ CanDispatch
    /\ ~Exists(files, u)
    /\ upd' = [kind |-> "analyze", uid |-> u]
    /\ sending' = [to |-> u, kind |-> "nodata"]
    /\ pc' = "analyze_reply_nodata"
    /\ UNCHANGED <<files, photo, parsed, result, uploads, hist>>

\* /analyze arrives and the user has a file: it is read and analysed, the
\* analysis returns an error and the handler awaits the "Analysis error" reply
AnalyzeError(u) ==
    /\ CanDispatch
    /\ Exists(files, u)
    /\ IsError(analyze_screenshots(Load(files, u)))
    /\ upd' = [kind |-> "analyze", uid |-> u]
    /\ parsed' = Load(files, u)
    /\ result' = analyze_screenshots(Load(files, u))
    /\ sending' = [to |-> u, kind |-> "error"]
    /\ pc' = "analyze_reply_error"
    /\ hist' = [hist EXCEPT ![u] = HistOf("failed", files[u].data)]
    /\ UNCHANGED <<files, photo, uploads>>

\* /analyze arrives and the user has a file: it is read and analysed, the
\* analysis returns a recommendation and the handler awaits the reply with it
AnalyzeTrade(u) ==
    /\ CanDispatch
    /\ Exists(files, u)
    /\ ~IsError(analyze_screenshots(Load(files, u)))
    /\ upd' = [kind |-> "analyze", uid |-> u]
    /\ parsed' = Load(files, u)
    /\ result' = analyze_screenshots(Load(files, u))
    /\ sending' = [to |-> u, kind |-> "trade"]
    /\ pc' = "analyze_reply_trade"
    /\ UNCHANGED <<files, photo, uploads, hist>>

AnalyzeReturnUnlinking ==
    /\ pc \in {"analyze_reply_nodata", "analyze_reply_error"}
    /\ files' = [files EXCEPT ![upd.uid] = [exists |-> FALSE, data |-> <<>>]]
    /\ pc' = "idle"
    /\ upd' = [kind |-> "none", uid |-> 0]
    /\ parsed' = <<>>
    /\ result' = [pending |-> TRUE]
    /\ sending' = [to |-> 0, kind |-> "none"]
    /\ UNCHANGED <<photo, uploads, hist>>

\* the "no data" or "Analysis error" reply was sent; analyze_cmd returns
AnalyzeReturn ==
    /\ pc \in {"analyze_reply_nodata", "analyze_reply_error"}
    /\ pc' = "idle"
    /\ upd' = NoUpdate
    /\ parsed' = EmptyDict
    /\ result' = NoResult
    /\ sending' = NoMessage
    /\ UNCHANGED <<files, photo, uploads, hist>>

\* the recommendation was sent; the file is unlinked and analyze_cmd returns
AnalyzeUnlink ==
    /\ pc = "analyze_reply_trade"
    /\ files' = Unlink(files, upd.uid)
    /\ hist' = [hist EXCEPT ![upd.uid] = HistOf("cleared", EmptyDict)]
    /\ pc' = "idle"
    /\ upd' = NoUpdate
    /\ parsed' = EmptyDict
    /\ result' = NoResult
    /\ sending' = NoMessage
    /\ UNCHANGED <<photo, uploads>>

Next ==
    \/ \E u \in Users : PhotoStart(u)
    \/ PhotoGetFile
    \/ \E c \in Captions, t \in Texts : PhotoReject(c, t)
    \/ \E c \in Captions, t \in Texts : PhotoStore(c, t)
    \/ PhotoReplied
    \/ \E u \in Users : AnalyzeNoData(u)
    \/ \E u \in Users : AnalyzeError(u)
    \/ \E u \in Users : AnalyzeTrade(u)
    \/ AnalyzeReturn
    \/ AnalyzeUnlink

Spec == Init /\ [][Next]_vars

\* ------------------------------------------------------------------------
\* The Signal Engine alone: analyze_screenshots applied to every session
\* that maps some of the timeframes to observations extracted from the
\* sample texts
\* ------------------------------------------------------------------------
SampleObs == {extract_prices_from_text(t) : t \in SampleTexts}

SampleSessions == UNION {[D -> SampleObs] : D \in SUBSET Timeframes}

EdgeObs == {extract_prices_from_text(t) : t \in EdgeTexts}

\* the sessions of 5M and 15M over the longer lists
EdgeSessions == UNION {[D -> EdgeObs] : D \in SUBSET {TF5M, TF15M}}

InitEngine ==
    /\ parsed \in SampleSessions \cup EdgeSessions
    /\ result = NoResult
    /\ files = [u \in Users |-> NoFile]
    /\ pc = "engine"
    /\ upd = NoUpdate
    /\ photo = NoPhoto
    /\ sending = NoMessage
    /\ uploads = 0
    /\ hist = [u \in Users |-> HistOf("none", EmptyDict)]

EngineAnalyze ==
    /\ pc = "engine"
    /\ result = NoResult
    /\ result' = analyze_screenshots(parsed)
    /\ UNCHANGED <<files, pc, upd, photo, parsed, sending, uploads, hist>>

NextEngine == EngineAnalyze

SpecEngine == InitEngine /\ [][NextEngine]_vars

\* ------------------------------------------------------------------------
\* The Numeric Extractor alone: extract_prices_from_text applied to every
\* text of at most MaxTextLen digits and points, and to the texts of the
\* tables
\* ------------------------------------------------------------------------
ExtractChars == {"7", "."}

ExtractTexts ==
    UNION {[1..n -> ExtractChars] : n \in 0..MaxTextLen}
        \cup SeqRange(TextTable) \cup SeqRange(EdgeTable)

InitExtract ==
    /\ photo \in {[NoPhoto EXCEPT !.text = t] : t \in ExtractTexts}
    /\ pc = "extract"
    /\ files = [u \in Users |-> NoFile]
    /\ upd = NoUpdate
    /\ parsed = EmptyDict
    /\ result = NoResult
    /\ sending = NoMessage
    /\ uploads = 0
    /\ hist = [u \in Users |-> HistOf("none", EmptyDict)]

Extract ==
    /\ pc = "extract"
    /\ photo' = [photo EXCEPT !.parsed = extract_prices_from_text(photo.text)]
    /\ pc' = "extracted"
    /\ UNCHANGED <<files, upd, parsed, result, sending, uploads, hist>>

NextExtract == Extract

SpecExtract == InitExtract /\ [][NextExtract]_vars

\* the controller and the engine side by side
SpecAll == (Init \/ InitEngine) /\ [][Next \/ NextEngine]_vars

\* ------------------------------------------------------------------------
\* Properties
\* ------------------------------------------------------------------------
\* the step dispatches /analyze of user u to analyze_cmd
AnalyzeTrigger(u) == pc = "idle" /\ upd'.kind = "analyze" /\ upd'.uid = u

\* the step is the one of handle_photo that parses the photo and checks the caption
PhotoParsed == pc = "photo_download" /\ pc' = "photo_reply"

HasNumbers(data) == \E k \in DOMAIN data : data[k].numbers # <<>>

NoPriceFound == [error |-> "No price found."]

DivisionByZero == [error |-> "float division by zero"]

\* C1: when an analyze trigger for U has produced a recommendation, the handler
\* ends with U's file removed, and the next analyze trigger for U with no
\* accepted upload in between answers "no data" and runs no analysis.
C1_SuccessClearsThenNoData ==
    [][/\ pc = "analyze_reply_trade" => pc' = "idle" /\ ~files'[upd.uid].exists
       /\ \A u \in Users :
            AnalyzeTrigger(u) /\ hist[u].phase = "cleared"
                => /\ pc' = "analyze_reply_nodata"
                   /\ sending' = [to |-> u, kind |-> "nodata"]
                   /\ result' = NoResult
                   /\ files' = files]_vars

C1_Witness ==
    /\ pc = "analyze_reply_nodata"
    /\ hist[upd.uid].phase = "cleared"
    /\ sending.kind = "nodata"

\* C2: an analyze trigger that ends in an error (No price found, or an internal
\* error) leaves every file as it was, from the trigger to the return of the
\* handler.
C2_FailureKeepsSession ==
    [][(pc' = "analyze_reply_error" \/ pc = "analyze_reply_error") => files' = files]_vars

C2_Witness ==
    /\ pc = "analyze_reply_error"
    /\ result = DivisionByZero
    /\ files[upd.uid].exists
    /\ files[upd.uid].data = parsed
    /\ Cardinality(DOMAIN parsed) = 2

\* C3: an upload whose caption is missing or, trimmed and upper-cased, is not
\* one of the five labels changes no file: the handler answers "resend" and
\* returns with every file as it was.
C3_RejectedUploadChangesNothing ==
    [][/\ PhotoParsed /\ TfLabel(photo'.caption) \notin {TF5M, TF15M, TF30M, TF1H, TF4H}
            => files' = files /\ sending' = [to |-> upd.uid, kind |-> "resend"]
       /\ pc = "photo_reply" /\ sending.kind = "resend" => files' = files]_vars

C3_Witness ==
    /\ pc = "photo_reply"
    /\ sending.kind = "resend"
    /\ ~photo.caption.has
    /\ photo.parsed.numbers # <<>>
    /\ files[upd.uid].exists
    /\ \A k \in DOMAIN files[upd.uid].data : files[upd.uid].data[k] # photo.parsed

\* C4: after an accepted upload (U, L, obs) the file of U holds exactly obs at
\* L, whatever it held before, and still does when the handler returns.
C4_LastWriteWins ==
    [][/\ PhotoParsed /\ TfLabel(photo'.caption) \in {TF5M, TF15M, TF30M, TF1H, TF4H}
            => /\ files'[upd.uid].exists
               /\ TfLabel(photo'.caption) \in DOMAIN files'[upd.uid].data
               /\ files'[upd.uid].data[TfLabel(photo'.caption)] = photo'.parsed
               /\ \E t \in Texts : photo'.parsed = [numbers |-> FindAll(t, 1), raw |-> t]
       /\ pc = "photo_reply" => files' = files]_vars

\* an observation with numbers at L was replaced by one with an empty list
C4_Witness ==
    /\ pc = "photo_reply"
    /\ sending.kind = "parsed"
    /\ photo.prior = "other"
    /\ photo.parsed.numbers = <<>>
    /\ files[upd.uid].data[photo.tf_label] = photo.parsed
    /\ uploads = 2
    /\ \A u \in Users : hist[u].phase = "none"

\* C5: an analyze trigger for a user with no file answers "no data", runs no
\* analysis and creates no file, up to the return of the handler.
C5_IdleAnalyzeIsNoData ==
    [][/\ \A u \in Users :
            AnalyzeTrigger(u) /\ ~files[u].exists
                => /\ pc' = "analyze_reply_nodata"
                   /\ sending' = [to |-> u, kind |-> "nodata"]
                   /\ result' = NoResult
                   /\ files' = files
       /\ pc = "analyze_reply_nodata" => pc' = "idle" /\ files' = files]_vars

C5_Witness ==
    /\ pc = "analyze_reply_nodata"
    /\ ~files[upd.uid].exists
    /\ hist[upd.uid].phase = "none"
    /\ \E u \in Users : files[u].exists

\* the engine has returned
Analysed == pc = "engine" /\ "pending" \notin DOMAIN result

IsTrade(r) == "entry" \in DOMAIN r

\* the number list of timeframe tf in session data, empty when tf is absent
ListAt(data, tf) == IF tf \in DOMAIN data THEN data[tf].numbers ELSE <<>>

Priority == <<TF5M, TF15M, TF30M, TF1H, TF4H>>

\* C6: when some timeframe has a non-empty number list the analysis does not
\* fail with "No price found", and the token selected as entry price, which is
\* the entry of the recommendation when one is returned, is the last number of
\* the first timeframe, in the order 5M, 15M, 30M, 1H, 4H, whose list is
\* non-empty (present-but-empty timeframes are skipped).
C6_EntryPriority ==
    Analysed /\ HasNumbers(parsed)
        => /\ result # NoPriceFound
           /\ \E i \in 1..5 :
                /\ ListAt(parsed, Priority[i]) # <<>>
                /\ \A j \in 1..(i - 1) : ListAt(parsed, Priority[j]) = <<>>
                /\ EntryToken(parsed)
                     = ListAt(parsed, Priority[i])[Len(ListAt(parsed, Priority[i]))]
                /\ IsTrade(result) => result.entry = ToFloat(EntryToken(parsed))

\* 5M is present with an empty list, 15M is absent, 30M supplies the entry
\* from a list of two different numbers, and 1H holds other numbers
C6_Witness ==
    /\ Analysed
    /\ IsTrade(result)
    /\ TF5M \in DOMAIN parsed /\ parsed[TF5M].numbers = <<>>
    /\ TF15M \notin DOMAIN parsed
    /\ Len(ListAt(parsed, TF30M)) = 2
    /\ ListAt(parsed, TF30M)[1] # ListAt(parsed, TF30M)[2]
    /\ ListAt(parsed, TF1H) # <<>>
    /\ ListAt(parsed, TF1H)[Len(ListAt(parsed, TF1H))] # ListAt(parsed, TF30M)[2]
    /\ result.entry = ToFloat(ListAt(parsed, TF30M)[2])

\* C7: a session with no numeric token at all (the empty mapping, or only
\* observations with empty lists) makes the engine return "No price found" and
\* no recommendation; in the controller a user whose file holds only such
\* observations gets this analysis error, not "no data", and keeps the file.
C7_NoPriceFound ==
    /\ Analysed /\ ~HasNumbers(parsed) => result = NoPriceFound
    /\ \A u \in Users :
         /\ upd = [kind |-> "analyze", uid |-> u] /\ files[u].exists /\ ~HasNumbers(files[u].data)
              => /\ pc = "analyze_reply_error"
                 /\ sending = [to |-> u, kind |-> "error"]
                 /\ result = NoPriceFound
         /\ hist[u].phase = "failed" => files[u].exists /\ files[u].data = hist[u].snap

C7_Witness ==
    /\ pc = "analyze_reply_error"
    /\ result = NoPriceFound
    /\ files[upd.uid].exists
    /\ Cardinality(DOMAIN files[upd.uid].data) = 2
    /\ ~HasNumbers(files[upd.uid].data)

\* the engine returned "No price found" for the empty mapping
C7_WitnessEmptyMapping == Analysed /\ parsed = EmptyDict /\ result = NoPriceFound

\* C8 as stated: after a failed analysis and one further accepted upload with
\* a number, the next analyze trigger yields a recommendation computed over
\* the preserved observations together with the new one, and the file is
\* then removed.
C8_RetryAlwaysRecommends ==
    [][/\ \A u \in Users :
            AnalyzeTrigger(u) /\ hist[u].phase = "retry"
                => /\ pc' = "analyze_reply_trade"
                   /\ IsTrade(result')
                   /\ result' = analyze_screenshots(hist[u].snap)
       /\ pc = "analyze_reply_trade" /\ hist[upd.uid].phase = "retry"
            => ~files'[upd.uid].exists]_vars

\* C8 amended: the retry is analysed over the preserved observations together
\* with the new one; it yields a recommendation, after which the file is
\* removed, unless the volatility proxy of those observations is 0, and then
\* it fails with the division error and the file is kept.
C8_RetryOverPreserved ==
    [][/\ \A u \in Users :
            AnalyzeTrigger(u) /\ hist[u].phase = "retry"
                => /\ files[u].exists /\ files[u].data = hist[u].snap
                   /\ parsed' = hist[u].snap
                   /\ result' = analyze_screenshots(hist[u].snap)
                   /\ files' = files
                   /\ IF Atr(hist[u].snap) = 0
                      THEN pc' = "analyze_reply_error" /\ result' = DivisionByZero
                      ELSE pc' = "analyze_reply_trade" /\ IsTrade(result')
       /\ pc = "analyze_reply_trade" /\ hist[upd.uid].phase = "retry"
            => ~files'[upd.uid].exists
       /\ pc = "analyze_reply_error" => files' = files]_vars

\* the retry succeeded over a preserved observation and the new one
C8_Witness ==
    /\ pc = "analyze_reply_trade"
    /\ hist[upd.uid].phase = "retry"
    /\ Cardinality(DOMAIN parsed) = 2
    /\ parsed = hist[upd.uid].snap
    /\ IsTrade(result)

\* C9: in every recommendation, with slDistance = 1.5 x proxy and tpDistance =
\* 4 x slDistance, both rounded to 3 places on output, a LONG has stopLoss =
\* entry - slDistance and takeProfit = entry + tpDistance, a SHORT the mirror
\* image, the ratio is 4.0, and the stop is never on the profit side of the
\* entry (slDistance is held in halves: 3 x proxy).
C9_StopAndTarget ==
    Analysed /\ IsTrade(result)
        => LET slDistance == 3 * Atr(parsed)
               tpDistance == 4 * slDistance
               entry == result.entry
           IN  /\ result.RR = 4
               /\ result.side \in {"LONG", "SHORT"}
               /\ result.side = "LONG"
                    => /\ result.SL = Round3Half(2 * entry - slDistance)
                       /\ result.TP = Round3Half(2 * entry + tpDistance)
                       /\ result.SL <= entry
               /\ result.side = "SHORT"
                    => /\ result.SL = Round3Half(2 * entry + slDistance)
                       /\ result.TP = Round3Half(2 * entry - tpDistance)
                       /\ result.SL >= entry

\* C10: in every recommendation the position size is
\* max(0.01, round(10000 x 0.01 / (slDistance x 100), 2)): never below 0.01,
\* and 0.67 when the volatility proxy is 1.0 (sizes in hundredths, slDistance
\* in halves: the quotient is 2 x 10^7 / (3 x proxy) hundredths).
C10_PositionSize ==
    Analysed /\ IsTrade(result)
        => /\ result.lots = Maximum({1, RoundDiv(20000000, 3 * Atr(parsed))})
           /\ result.lots >= 1
           /\ Atr(parsed) = 100000 => result.lots = 67

\* the floor is what is reported: the rounded quotient is 0
C10_Witness ==
    /\ Analysed
    /\ IsTrade(result)
    /\ RoundDiv(20000000, 3 * Atr(parsed)) = 0
    /\ result.lots = 1

\* the proxy is the default 1.0 and the size is 0.67
C10_WitnessDefault == Analysed /\ IsTrade(result) /\ Atr(parsed) = 100000 /\ result.lots = 67

\* the numbers of 15M the bias is taken from: its last min(5, n)
BiasWindow(m15) ==
    [i \in 1..Minimum({5, Len(m15)}) |->
        ToFloat(m15[Len(m15) - Minimum({5, Len(m15)}) + i])]

\* C11: in every recommendation, when 15M has at least one number the side is
\* LONG exactly when its last number is strictly greater than the arithmetic
\* mean of its last min(5, n) numbers (last x count > their sum) and SHORT
\* otherwise, so SHORT when the last number equals that mean; when 15M is
\* absent or has no numbers the side is LONG.
C11_DirectionalBias ==
    Analysed /\ IsTrade(result)
        => LET m15 == ListAt(parsed, TF15M)
               w == BiasWindow(m15)
           IN  result.side =
                 IF m15 = <<>> THEN "LONG"
                 ELSE IF ToFloat(m15[Len(m15)]) * Len(w) > SumSeq(w) THEN "LONG"
                 ELSE "SHORT"

\* the numbers of every timeframe of a session, as decimals
RECURSIVE NumbersFrom(_, _)
NumbersFrom(data, i) ==
    IF i > Len(Priority) THEN <<>>
    ELSE [j \in 1..Len(ListAt(data, Priority[i])) |-> ToFloat(ListAt(data, Priority[i])[j])]
           \o NumbersFrom(data, i + 1)

\* C12: the volatility proxy is computed over the numbers of every timeframe
\* present in the session: with fewer than two numbers in the whole session
\* it is exactly 1.0, with two or more it is their population standard
\* deviation, which is 0 when all of them are equal.
C12_VolatilityProxy ==
    Analysed
        => LET xs == NumbersFrom(parsed, 1)
           IN  /\ Len(xs) < 2 => Atr(parsed) = 100000
               /\ Len(xs) >= 2
                    => /\ Atr(parsed) = PStd(xs)
                       /\ (\A i \in 1..Len(xs) : xs[i] = xs[1]) => Atr(parsed) = 0

\* x, a fixed-point value, has at most 3 decimal places
AtMost3Places(x) == x % (Unit \div 1000) = 0

\* C13: in every recommendation the entry, the stop-loss and the take-profit
\* have at most 3 decimal places each, and the position size, held in
\* hundredths, at most 2 (it is at least the floor 0.01).
C13_Rounding ==
    Analysed /\ IsTrade(result)
        => /\ AtMost3Places(result.entry)
           /\ AtMost3Places(result.SL)
           /\ AtMost3Places(result.TP)
           /\ result.lots >= 1

\* the observations the OCR texts give: numbers and raw text of one text each
Observations == {[numbers |-> FindAll(t, 1), raw |-> t] : t \in Texts}

\* C14: in every reachable state the file of every user maps labels among
\* 5M, 15M, 30M, 1H, 4H, and no others, to one observation each (the numbers
\* and the raw text extracted from one OCR text), whatever uploads, captions
\* and analyze triggers came before.
C14_SessionShape ==
    \A u \in Users :
        /\ DOMAIN files[u].data \subseteq {TF5M, TF15M, TF30M, TF1H, TF4H}
        /\ \A k \in DOMAIN files[u].data : files[u].data[k] \in Observations

\* an upload captioned with an unrecognized string was answered "resend"
\* while the user's file holds an observation at a recognized label
C14_Witness ==
    /\ pc = "photo_reply"
    /\ sending.kind = "resend"
    /\ photo.caption.has
    /\ photo.tf_label \notin {TF5M, TF15M, TF30M, TF1H, TF4H}
    /\ files[upd.uid].exists
    /\ DOMAIN files[upd.uid].data # {}
    /\ photo.tf_label \notin DOMAIN files[upd.uid].data

\* C15: for every session the engine returns either a complete
\* recommendation (side, entry, SL, TP, lots, RR) or an error carrying its
\* cause, never part of a recommendation; when the entry price was selected
\* and the volatility proxy is 0 the division fault of the sizing is returned
\* as the error "float division by zero".
C15_AllOrNothing ==
    Analysed
        => /\ \/ /\ DOMAIN result = {"side", "entry", "SL", "TP", "lots", "RR"}
                 /\ result.side \in {"LONG", "SHORT"}
                 /\ result.entry \in Nat /\ result.SL \in Int /\ result.TP \in Int
                 /\ result.lots \in Nat /\ result.RR = 4
              \/ /\ DOMAIN result = {"error"}
                 /\ result.error \in {"No price found.", "float division by zero",
                                       "could not convert string to float"}
           /\ HasNumbers(parsed) /\ Atr(parsed) = 0 => result = DivisionByZero
           /\ HasNumbers(parsed) /\ Atr(parsed) # 0 => IsTrade(result)

\* the entry comes from 5M, the numbers of two timeframes are all equal and
\* the engine returned the division error
C15_Witness ==
    /\ Analysed
    /\ result = DivisionByZero
    /\ ListAt(parsed, TF5M) # <<>>
    /\ ListAt(parsed, TF4H) # <<>>
    /\ Atr(parsed) = 0

\* C16: a handler invocation runs to completion before the next one starts:
\* while one is in progress the update being handled stays the same until the
\* handler returns, its steps follow one another in the order of the code
\* with no step of another invocation in between, and an update is
\* dispatched only when no invocation is in progress (for any user, hence for
\* one and the same user).
C16_PerUserSerialization ==
    [][/\ pc # "idle" => upd' = upd \/ (pc' = "idle" /\ upd' = NoUpdate)
       /\ upd'.kind # "none" /\ upd' # upd => pc = "idle" /\ upd = NoUpdate
       /\ pc = "photo_get_file" => pc' = "photo_download"
       /\ pc = "photo_download" => pc' = "photo_reply"
       /\ pc \in {"photo_reply", "analyze_reply_nodata", "analyze_reply_error",
                   "analyze_reply_trade"} => pc' = "idle"]_vars

\* the second upload of a user is in progress after the first has returned
C16_Witness ==
    /\ pc = "photo_download"
    /\ uploads = 2
    /\ upd.kind = "photo"
    /\ files[upd.uid].exists
    /\ \A u \in Users \ {upd.uid} : ~files[u].exists

\* the user whose handler takes the step
Acting == IF pc = "idle" THEN upd'.uid ELSE upd.uid

\* C17: a step changes no file but the acting user's; the step of an
\* accepted upload (U, L, obs) leaves every other label of U's file as it
\* was and adds no label but L; a step of an analyze trigger for U either
\* leaves U's file as it was or removes it.
C17_Frame ==
    [][/\ \A v \in Users : v # Acting => files'[v] = files[v]
       /\ PhotoParsed
            => LET L == TfLabel(photo'.caption)
                   old == files[upd.uid].data
                   new == files'[upd.uid].data
               IN  IF L \in {TF5M, TF15M, TF30M, TF1H, TF4H}
                   THEN /\ DOMAIN new = (DOMAIN old) \cup {L}
                        /\ \A k \in (DOMAIN old) \ {L} : new[k] = old[k]
                   ELSE files' = files
       /\ upd.kind = "analyze" \/ upd'.kind = "analyze"
            => files'[Acting] = files[Acting] \/ files'[Acting] = NoFile
       /\ ~PhotoParsed /\ pc # "analyze_reply_trade" => files' = files]_vars

\* the file of U was removed by U's successful analysis while another user
\* V keeps a file
C17_Witness ==
    /\ pc = "idle"
    /\ \E u, v \in Users :
         /\ u # v
         /\ hist[u].phase = "cleared"
         /\ ~files[u].exists
         /\ files[v].exists

\* an accepted upload of U at L was stored while U's file held another label
C17_WitnessUpload ==
    /\ pc = "photo_reply"
    /\ sending.kind = "parsed"
    /\ Cardinality(DOMAIN files[upd.uid].data) = 2
    /\ photo.prior = "absent"

\* tok is 3 to 5 digits, a point and 1 to 4 digits
IsPrice(tok) ==
    \E a \in 3..5, b \in 1..4 :
        /\ Len(tok) = a + 1 + b
        /\ tok[a + 1] = "."
        /\ \A j \in (1..a) \cup ((a + 2)..(a + 1 + b)) : IsDigit(tok[j])

\* toks occur in text from position from on, one after the other
RECURSIVE OccurInOrder(_, _, _)
OccurInOrder(text, toks, from) ==
    \/ toks = <<>>
    \/ \E p \in from..(Len(text) - Len(Head(toks)) + 1) :
         /\ SubSeq(text, p, p + Len(Head(toks)) - 1) = Head(toks)
         /\ OccurInOrder(text, Tail(toks), p + Len(Head(toks)))

ContainsPrice(text) ==
    \E i \in 1..Len(text), j \in 1..Len(text) : IsPrice(SubSeq(text, i, j))

\* C18: the extractor returns the text unchanged as raw and, as numbers,
\* substrings of it that are each 3 to 5 digits, a point and 1 to 4 digits,
\* in their order of appearance and without overlap; the list is empty
\* exactly when the text (the empty one included) has no such substring.
C18_Extractor ==
    pc = "extracted"
        => /\ photo.parsed.raw = photo.text
           /\ \A i \in 1..Len(photo.parsed.numbers) : IsPrice(photo.parsed.numbers[i])
           /\ OccurInOrder(photo.text, photo.parsed.numbers, 1)
           /\ photo.parsed.numbers = <<>> <=> ~ContainsPrice(photo.text)

\* two matches of different lengths on two lines
C18_Witness ==
    /\ pc = "extracted"
    /\ Len(photo.parsed.numbers) = 2
    /\ Len(photo.parsed.numbers[1]) > Len(photo.parsed.numbers[2])
    /\ \E i \in 1..Len(photo.text) : photo.text[i] = "\n"

\* a run of more than 5 digits before the point: the match starts inside it
C18_WitnessLongRun ==
    /\ pc = "extracted"
    /\ Len(photo.text) = 8
    /\ photo.text[7] = "."
    /\ photo.parsed.numbers = << <<"7", "7", "7", "7", "7", ".", "7">> >>

\* the observation at label k of u's file is no longer there after the step
Removed(u, k) ==
    \/ ~files'[u].exists
    \/ k \notin DOMAIN files'[u].data
    \/ files'[u].data[k] # files[u].data[k]

\* C19: a stored observation of U at label k leaves U's file only in the
\* step of an accepted upload of U with label k, or when an analysis of U
\* that returned a recommendation computed from a snapshot holding that
\* observation removes the file; while the recommendation is being sent the
\* file still is the snapshot read (no upload was accepted in between), and
\* an accepted upload keeps the observations at the other labels.
C19_NoLostUpload ==
    [][/\ \A u \in Users : \A k \in DOMAIN files[u].data :
            Removed(u, k)
                => \/ /\ PhotoParsed
                       /\ upd.uid = u
                       /\ TfLabel(photo'.caption) = k
                       /\ sending'.kind = "parsed"
                   \/ /\ pc = "analyze_reply_trade"
                       /\ upd = [kind |-> "analyze", uid |-> u]
                       /\ k \in DOMAIN parsed
                       /\ parsed[k] = files[u].data[k]
                       /\ IsTrade(result)
                       /\ result = analyze_screenshots(parsed)
                       /\ sending = [to |-> u, kind |-> "trade"]
       /\ pc' = "analyze_reply_trade" => parsed' = files'[upd'.uid].data
       /\ pc = "analyze_reply_trade" => parsed = files[upd.uid].data]_vars

\* two uploads of one user with different labels are both stored and both
\* in the snapshot of the analysis whose recommendation is being sent
C19_Witness ==
    /\ pc = "analyze_reply_trade"
    /\ hist[upd.uid].phase = "none"
    /\ DOMAIN parsed = {TF5M, TF4H}
    /\ parsed[TF5M] # parsed[TF4H]
    /\ files[upd.uid].exists
    /\ files[upd.uid].data = parsed

\* the step completes the accepted upload of u: the observation is stored
Accepted(u) == PhotoParsed /\ upd.uid = u /\ sending'.kind = "parsed"

\* the step ends a successful analysis of u: the recommendation was sent
Succeeded(u) == pc = "analyze_reply_trade" /\ upd.uid = u

\* C20: a file that exists holds at least one observation; a user's file
\* comes into existence exactly in the step of an accepted upload of that
\* user and goes out of existence exactly in the last step of a successful
\* analysis of that user, so it exists exactly when an upload was accepted
\* since the start or since the last successful analysis; and an analyze
\* trigger answers "no data" exactly when the file does not exist.
C20_StoredSessionNotEmpty ==
    [][\A u \in Users :
         /\ files[u].exists => DOMAIN files[u].data # {}
         /\ files'[u].exists => DOMAIN files'[u].data # {}
         /\ Accepted(u) => files'[u].exists
         /\ Succeeded(u) => ~files'[u].exists
         /\ ~Accepted(u) /\ ~Succeeded(u) => files'[u].exists = files[u].exists
         /\ AnalyzeTrigger(u)
              => (pc' = "analyze_reply_nodata" /\ sending'.kind = "nodata")
                   = ~files[u].exists]_vars

\* the only observation stored has no number: the session is not empty and
\* the analyze trigger was answered with an analysis error, not "no data"
C20_Witness ==
    /\ pc = "analyze_reply_error"
    /\ sending.kind = "error"
    /\ files[upd.uid].exists
    /\ Cardinality(DOMAIN files[upd.uid].data) = 1
    /\ ~HasNumbers(files[upd.uid].data)

====
